---- MODULE Spec2Model ----
(***************************************************************************)
(* EBC_Measurements: the data logger (Base/DataLogger.py), its sources and *)
(* outputs, and the name resolution of DataLoggerTimeTrigger.              *)
(*                                                                         *)
(* Time is an integer clock (seconds).  A name is a sequence of            *)
(* characters.  A cell of a row is <<i, k>> (the value read from variable  *)
(* k of source i), <<>> (Python None, a missing value) or <<t>> (the       *)
(* timestamp of a tick).                                                   *)
(***************************************************************************)
EXTENDS Integers, Sequences, FiniteSets, TLC

\* ------------------------------------------------------------------ bounds
MaxInterval == 2      \* intervals passed to run_data_logging: 0..MaxInterval
MaxDuration == 4      \* durations passed to run_data_logging: 0..MaxDuration, or None
MaxWork == 1          \* longest time one read or one write takes
MaxTicks == 2         \* ticks explored in a session without duration

\* ------------------------------------------------------------------- names
TimeKey == <<"T", "i", "m", "e">>
NoneCell == <<>>
ValueCell(i, k) == <<i, k>>
TimeCell(t) == <<t>>

\* all_data_names of an ADS output (output_data_names)
AdsOutputNames == { << <<"p">>, <<"q">> >>, << <<"p">>, <<"q">>, <<"r">> >> }

\* ----------------------------------------------------------------- helpers
RECURSIVE Flatten(_)
Flatten(ss) == IF ss = <<>> THEN <<>> ELSE Head(ss) \o Flatten(Tail(ss))

Last(s) == s[Len(s)]

Range(s) == { s[k] : k \in 1..Len(s) }

\* ----------------------------------------------------------------- sources
\* RandomDataSource(size, missing_rate): n_missing = int(size * missing_rate)
RandomSource(size, n_missing, hs) ==
    [kind |-> "Random", size |-> size, n_missing |-> n_missing, headers |-> hs]
\* AdsDataSourceOutput with source_data_names of length size
AdsSource(size, hs) ==
    [kind |-> "Ads", size |-> size, n_missing |-> 0, headers |-> hs]
\* SensoSysDataSource with one device of `size` measurement parameters
SensoSysSource(size, hs) ==
    [kind |-> "SensoSys", size |-> size, n_missing |-> 0, headers |-> hs]

\* a source together with the headers its caller declares for it; the last
\* one declares fewer headers than the source returns values
SourceChoices ==
    { RandomSource(1, 0, << <<"x">> >>),
      RandomSource(2, 1, << <<"x">>, <<"y">> >>),
      AdsSource(1, << <<"x">> >>),
      SensoSysSource(1, << <<"y">> >>),
      RandomSource(2, 1, << <<"y">> >>) }

Returned(vals) == [raised |-> FALSE, values |-> vals]
Raises == [raised |-> TRUE, values |-> <<>>]

\* RandomDataSource.read_data: `size` values, exactly n_missing of them None
RandomReadData(i, s) ==
    { Returned([k \in 1..s.size |-> IF k \in M THEN NoneCell ELSE ValueCell(i, k)]) :
        M \in { m \in SUBSET (1..s.size) : Cardinality(m) = s.n_missing } }

\* AdsDataSourceOutput.read_data -> AdsDataSource.read_data: the values of all
\* names, or an exception in the logger's comprehension: the ADSError of
\* plc.read_list_by_name when the connection is down, the TypeError of
\* iterating the None that read_data returns while plc_connected is False
AdsReadData(i, s) ==
    { Returned([k \in 1..s.size |-> ValueCell(i, k)]), Raises }

\* SensoSysDataSource.read_data: the parameters of the device, or nothing
\* when the device gave no response.  The logger iterates what read_data
\* returns (for a mapping, its keys): one item per parameter either way.
SensoSysReadData(i, s) ==
    { Returned([k \in 1..s.size |-> ValueCell(i, k)]), Returned(<<>>) }

read_data(i, s) ==
    CASE s.kind = "Random" -> RandomReadData(i, s)
      [] s.kind = "Ads" -> AdsReadData(i, s)
      [] s.kind = "SensoSys" -> SensoSysReadData(i, s)

\* ----------------------------------------------------------------- outputs
CsvOutput == [kind |-> "Csv", headers |-> <<>>]
AdsOutput(names) == [kind |-> "Ads", headers |-> names]

OutputChoices == {CsvOutput} \cup { AdsOutput(n) : n \in AdsOutputNames }

DataHeadersReversed(sources) ==
    Flatten([i \in 1..Len(sources) |-> sources[Len(sources) + 1 - i].headers])

\* DataLoggerBase.__init__: all headers of all sources, in declaration order
DataHeaders(sources) == Flatten([i \in 1..Len(sources) |-> sources[i].headers])

CsvHeaderTimeLast(sources) == DataHeaders(sources) \o <<TimeKey>>

\* DataLoggerBase.__init__: the header written to a csv output
CsvHeader(sources) == <<TimeKey>> \o DataHeaders(sources)

\* DataLoggerBase.__init__: "Init outputs"
InitOutput(o, sources) ==
    IF o.kind = "Csv" THEN [o EXCEPT !.headers = CsvHeader(sources)] ELSE o

OutputCheckDataLengthAtLeast(o, row) == Len(row) >= Len(o.headers)

\* DataOutputBase._check_data_length
OutputCheckDataLength(o, row) == Len(row) = Len(o.headers)

\* AdsDataOutput._log_data.clean_keys_with_none_values: the keys that stay
CleanedKeys(row) == { k \in 1..Len(row) : row[k] # NoneCell }

Entry(tick, row) == [tick |-> tick, row |-> row]

\* log_data of one output: the file (or the PLC's write log) afterwards and
\* how the call ended: "written", "raised", "rejected" (check_and_log_data
\* returned False) or "empty" (nothing left to send after cleaning).
\* fails: the destination raises on this write.
Outcome(file, result) == [file |-> file, result |-> result]

\* DataOutputCsv.log_data -> _append_to_csv
CsvLogData(file, tick, row, fails) ==
    IF fails THEN Outcome(file, "raised")
    ELSE Outcome(Append(file, Entry(tick, row)), "written")

\* AdsDataSourceOutput.log_data -> check_and_log_data -> AdsDataOutput._log_data
AdsLogData(o, file, tick, row, fails) ==
    IF OutputCheckDataLength(o, row)
    THEN IF CleanedKeys(row) # {}
         THEN IF fails THEN Outcome(file, "raised")
              ELSE Outcome(Append(file, Entry(tick, row)), "written")
         ELSE Outcome(file, "empty")
    ELSE Outcome(file, "rejected")

HeadersAfterLogDataCleaned(o, row) ==
    [n \in 1..Cardinality({ k \in 1..Len(o.headers) : k > Len(row) \/ row[k] # NoneCell })
        |-> o.headers[CHOOSE k \in 1..Len(o.headers) :
                /\ k > Len(row) \/ row[k] # NoneCell
                /\ Cardinality({ h \in 1..k : h > Len(row) \/ row[h] # NoneCell }) = n]]

\* the header of an output after log_data: _append_to_csv only writes the
\* file, AdsDataOutput._log_data zips the header into a new dict and cleans
\* that dict; nothing assigns to the header
HeadersAfterLogData(o, row) == o.headers

log_data(o, file, tick, row, fails) ==
    IF o.kind = "Csv" THEN CsvLogData(file, tick, row, fails)
    ELSE AdsLogData(o, file, tick, row, fails)

\* ------------------------------------------------------------------- state
VARIABLES
    data_sources,       \* DataLoggerBase.data_sources with their headers
    data_outputs,       \* DataLoggerBase.data_outputs
    files,              \* per output: the rows persisted so far
    pc,                 \* position of run_data_logging
    now,                \* time.time()
    interval,
    end_time,           \* <<>> for None, else <<t>>
    start_time,
    next_log_time,
    log_count,
    ticks,              \* loop iterations begun in this run
    add_timestamp,
    check_data_length,
    timestamp,
    data,
    src_i,              \* index of the source read next
    data_to_log,
    out_j,              \* index of the output written next
    slow,               \* some read or write of this run took time
    late,               \* the work of some tick of this run took an interval or more
    reads,              \* how the reads of this tick ended, in source order
    results,            \* how the log_data calls of this tick ended, per output
    r_sources,          \* DataLoggerTimeTrigger: data_sources_mapping
    r_sinks,            \* DataLoggerTimeTrigger: data_outputs_mapping
    r_rules,            \* DataLoggerTimeTrigger: data_rename_mapping
    r_delim,            \* the delimiter of the prefix
    r_pc,               \* "config", "accepted" or "ConfigurationError"
    resolved,           \* per sink, per source: the final variable names
    m_buffer,           \* MqttDataSource._data_buffer: topic -> payload, 0: no key
    m_pc,               \* read_data of the MQTT source: "idle" or "copied"
    m_data,             \* read_data: the local copy `data`
    m_sent,             \* messages delivered to on_message so far
    m_overwritten,      \* messages replaced in the buffer by a later one
    m_reads,            \* the mappings the read_data calls returned, in order
    m_window,           \* the messages delivered since the last read_data returned
    m_expect,           \* m_window at the call of each read_data, in order
    o_file,             \* DataOutputCsv (DataOutput.py): the lines of the csv file
    o_headers,          \* DataOutputBase._headers
    o_pc,               \* "none" before the output is constructed, then "ready"
    o_calls,            \* check_and_log_data calls since construction: row, result
    o_prev,             \* the file before the last check_and_log_data
    o_built,            \* constructions on this file so far
    m_topics,           \* all_topics: the topics the mqtt source subscribes to
    c_kind,             \* the adapter that connects: "Ads", "Mqtt" or "off"
    c_max,              \* max_retries
    c_pc,               \* position in the construction of the adapter
    c_attempt,          \* attempt
    c_connected,        \* plc_connected / system.is_connected()
    c_pending,          \* mqtt: connect() returned, CONNACK not yet processed
    c_log,              \* connection calls, waits and acknowledgements so far
    o_default,          \* DataOutputCsv._csv_writer_settings_default (class attribute)
    o_settings,         \* csv_writer_settings of the output constructed last
    o_arg,              \* the csv_writer_settings argument of the last construction
    s_reader,           \* shared adapter: position of the thread that reads
    s_writer,           \* shared adapter: position of the thread that writes
    s_reads,            \* shared adapter: read_data calls that have returned
    s_writes,           \* shared adapter: log_data calls that have returned
    d_kind,             \* device output: "Ads", "Mqtt" or "off"
    d_names,            \* device output: its names (PLC variables, topics)
    d_calls,            \* device output: what the log calls so far were given
    d_sent,             \* device output: what was sent to the device, call by call
    runs                \* calls of run_data_logging that have ended

vars == << data_sources, data_outputs, files, pc, now, interval, end_time,
           start_time, next_log_time, log_count, ticks, add_timestamp,
           check_data_length, timestamp, data, src_i, data_to_log, out_j, slow,
           late, reads, results, r_sources, r_sinks, r_rules, r_delim, r_pc,
           resolved, m_buffer, m_pc, m_data, m_sent, m_overwritten, m_reads,
           m_window, m_expect, o_file, o_headers, o_pc, o_calls, o_prev,
           o_built, runs, m_topics, c_kind, c_max, c_pc, c_attempt,
           c_connected, c_pending, c_log, o_default, o_settings, o_arg,
           s_reader, s_writer, s_reads, s_writes, d_kind, d_names, d_calls,
           d_sent >>

resolverVars == << r_sources, r_sinks, r_rules, r_delim, r_pc, resolved >>
mqttVars == << m_buffer, m_pc, m_data, m_sent, m_overwritten, m_reads,
              m_window, m_expect, m_topics >>
outVars == << o_file, o_headers, o_pc, o_calls, o_prev, o_built, o_default,
             o_settings, o_arg >>
connVars == << c_kind, c_max, c_pc, c_attempt, c_connected, c_pending, c_log >>
devVars == << s_reader, s_writer, s_reads, s_writes, d_kind, d_names, d_calls,
             d_sent >>
cfgVars == << data_sources, data_outputs, resolverVars, mqttVars, outVars,
             connVars, devVars >>
runVars == << interval, end_time, start_time, next_log_time, add_timestamp,
              check_data_length >>

NoResults == << "none", "none" >>

Running == {"loop", "read", "check", "log", "sleep"}
Terminal == {"Completed", "Cancelled", "ValueError", "Raised"}

\* ------------------------------------------------------------------ actions
ResolverOff ==
    /\ r_sources = <<>>
    /\ r_sinks = <<>>
    /\ r_rules = {}
    /\ r_delim = <<>>
    /\ r_pc = "off"
    /\ resolved = <<>>

LoggerInit ==
    /\ data_sources \in { <<a, b>> : a \in SourceChoices, b \in SourceChoices }
    /\ \E oa \in OutputChoices, ob \in OutputChoices :
          data_outputs = << InitOutput(oa, data_sources), InitOutput(ob, data_sources) >>
    /\ files = << <<>>, <<>> >>
    /\ pc = "idle"
    /\ now = 0
    /\ interval = 0
    /\ end_time = <<>>
    /\ start_time = 0
    /\ next_log_time = 0
    /\ log_count = 0
    /\ ticks = 0
    /\ add_timestamp = TRUE
    /\ check_data_length = TRUE
    /\ timestamp = TimeCell(0)
    /\ data = <<>>
    /\ src_i = 1
    /\ data_to_log = <<>>
    /\ out_j = 1
    /\ slow = FALSE
    /\ late = FALSE
    /\ reads = <<>>
    /\ results = NoResults
    /\ runs = 0

MqttOff ==
    /\ m_buffer = <<>>
    /\ m_pc = "off"
    /\ m_data = <<>>
    /\ m_sent = 0
    /\ m_overwritten = {}
    /\ m_reads = <<>>
    /\ m_window = <<>>
    /\ m_expect = <<>>
    /\ m_topics = {}

DevOff ==
    /\ s_reader = "off"
    /\ s_writer = "off"
    /\ s_reads = 0
    /\ s_writes = 0
    /\ d_kind = "off"
    /\ d_names = <<>>
    /\ d_calls = <<>>
    /\ d_sent = <<>>

ConnOff ==
    /\ c_kind = "off"
    /\ c_max = 0
    /\ c_pc = "off"
    /\ c_attempt = 0
    /\ c_connected = FALSE
    /\ c_pending = FALSE
    /\ c_log = <<>>

OutputOff ==
    /\ o_file = <<>>
    /\ o_headers = <<>>
    /\ o_pc = "off"
    /\ o_calls = <<>>
    /\ o_prev = <<>>
    /\ o_built = 0
    /\ o_default = <<>>
    /\ o_settings = <<>>
    /\ o_arg = <<>>

Init == LoggerInit /\ ResolverOff /\ MqttOff /\ OutputOff /\ ConnOff /\ DevOff

FirstLogTimeResumed(start, previous) == previous

\* line 205: next_log_time = start_time, whatever an earlier call left
FirstLogTime(start, previous) == start

InvalidInputNegative(i, d) == i < 0 \/ (d # <<>> /\ d[1] < 0)

\* lines 196-200: the arguments that raise ValueError
InvalidInput(i, d) == i <= 0 \/ (d # <<>> /\ d[1] <= 0)

\* run_data_logging, lines 195-206: check the input, init the time values
Run(i, d, ats, cdl) ==
    /\ pc = "idle"
    /\ IF InvalidInput(i, d)
       THEN /\ pc' = "ValueError"
            /\ UNCHANGED << runVars, log_count >>
       ELSE /\ pc' = "loop"
            /\ interval' = i
            /\ start_time' = now
            /\ end_time' = IF d = <<>> THEN <<>> ELSE <<now + d[1]>>
            /\ next_log_time' = FirstLogTime(now, next_log_time)
            /\ log_count' = 0
            /\ add_timestamp' = ats
            /\ check_data_length' = cdl
    /\ UNCHANGED << cfgVars, files, now, ticks, timestamp, data, src_i,
                    data_to_log, out_j, slow, late, reads, results, runs >>

NextLogTimeFromNow(next, i, t) == t + i

\* line 217: next_log_time += interval; the time t of the update plays no part
NextLogTime(next, i, t) == next + i

LoopConditionInclusive(t, e) == e = <<>> \/ t <= e[1]

\* line 215: end_time is None or time.time() < end_time
LoopCondition(t, e) == e = <<>> \/ t < e[1]

\* the loop condition, the deadline update and the timestamp (lines 215-220)
CarriedData(previous) == previous

\* line 221: data is bound to a new list in every pass of the loop
NewData(previous) == <<>>

LoopTest ==
    /\ pc = "loop"
    /\ IF LoopCondition(now, end_time)
       THEN /\ ticks < MaxTicks \/ end_time # <<>>
            /\ next_log_time' = NextLogTime(next_log_time, interval, now)
            /\ timestamp' = TimeCell(now)
            /\ data' = NewData(data)
            /\ src_i' = 1
            /\ ticks' = ticks + 1
            /\ reads' = <<>>
            /\ results' = NoResults
            /\ pc' = "read"
       ELSE /\ pc' = "Completed"
            /\ UNCHANGED << next_log_time, timestamp, data, src_i, ticks,
                            reads, results >>
    /\ UNCHANGED << cfgVars, files, now, interval, end_time, start_time,
                    log_count, add_timestamp, check_data_length, data_to_log,
                    out_j, slow, late, runs >>

CollectedInFront(d, values) == values \o d

\* line 221: the comprehension appends the values of a source to the list
Collected(d, values) == d \o values

\* one source.read_data() of the comprehension of line 221
ReadSource(o, dt) ==
    /\ pc = "read"
    /\ o \in read_data(src_i, data_sources[src_i])
    /\ now' = now + dt
    /\ slow' = (slow \/ dt > 0)
    /\ reads' = Append(reads, o)
    /\ IF o.raised
       THEN /\ pc' = "Raised"
            /\ UNCHANGED << data, src_i >>
       ELSE /\ data' = Collected(data, o.values)
            /\ IF src_i = Len(data_sources)
               THEN pc' = "check" /\ UNCHANGED src_i
               ELSE pc' = "read" /\ src_i' = src_i + 1
    /\ UNCHANGED << cfgVars, files, runVars, log_count, ticks, timestamp,
                    data_to_log, out_j, late, results, runs >>

LoggerCheckDataLengthAtMost(d, sources) == Len(d) <= Len(DataHeaders(sources))

\* DataLoggerBase._check_data_length
LoggerCheckDataLength(d, sources) == Len(d) = Len(DataHeaders(sources))

\* DataLoggerBase._add_timestamp_to_data
AddTimestampToData(ts, d) == <<ts>> \o d

\* lines 223-237: the length check, the log counter, the timestamp
CheckData ==
    /\ pc = "check"
    /\ IF check_data_length => LoggerCheckDataLength(data, data_sources)
       THEN /\ log_count' = log_count + 1
            /\ data_to_log' = IF add_timestamp
                              THEN AddTimestampToData(timestamp, data)
                              ELSE data
            /\ out_j' = 1
            /\ pc' = "log"
       ELSE /\ pc' = "sleep"
            /\ UNCHANGED << log_count, data_to_log, out_j >>
    /\ UNCHANGED << cfgVars, files, now, runVars, ticks, timestamp, data,
                    src_i, slow, late, reads, results, runs >>

\* one data_output.log_data(data_to_log) of the loop of lines 238-240
WriteOutput(fails, dt) ==
    /\ pc = "log"
    /\ LET r == log_data(data_outputs[out_j], files[out_j], ticks, data_to_log, fails)
       IN  /\ files' = [files EXCEPT ![out_j] = r.file]
           /\ results' = [results EXCEPT ![out_j] = r.result]
           /\ data_outputs' =
                  [data_outputs EXCEPT ![out_j].headers =
                      HeadersAfterLogData(data_outputs[out_j], data_to_log)]
           /\ IF r.result = "raised"
              THEN pc' = "Raised" /\ UNCHANGED out_j
              ELSE IF out_j = Len(data_outputs)
                   THEN pc' = "sleep" /\ UNCHANGED out_j
                   ELSE pc' = "log" /\ out_j' = out_j + 1
    /\ now' = now + dt
    /\ slow' = (slow \/ dt > 0)
    /\ UNCHANGED << data_sources, resolverVars, mqttVars, outVars, connVars,
                    devVars, runVars,
                    log_count, ticks, timestamp, data, src_i, data_to_log,
                    late, reads, runs >>

WakeTimeAfterInterval(t, next, i) == t + i

WakeTimeAtOnce(t, next, i) == t

\* lines 245-250: sleep_time = next_log_time - time.time(); the time at which
\* the loop goes on, after time.sleep(sleep_time) or at once
WakeTime(t, next, i) == IF next - t > 0 THEN next ELSE t

\* lines 244-250: sleep until the next logging time, if it is still ahead
Sleep ==
    /\ pc = "sleep"
    /\ now' = WakeTime(now, next_log_time, interval)
    /\ late' = (late \/ now - timestamp[1] >= interval)
    /\ pc' = "loop"
    /\ UNCHANGED << cfgVars, files, runVars, log_count, ticks, timestamp,
                    data, src_i, data_to_log, out_j, slow, reads, results, runs >>

\* lines 254-255: KeyboardInterrupt raised anywhere inside the try block
Interrupt ==
    /\ pc \in Running
    /\ pc' = "Cancelled"
    /\ UNCHANGED << cfgVars, files, now, runVars, log_count, ticks, timestamp,
                    data, src_i, data_to_log, out_j, slow, late, reads, results,
                    runs >>

Duration(d) == <<d>>
NoDuration == <<>>

Step(Intervals, Durations, Flags, Work) ==
    \/ \E i \in Intervals, d \in Durations, ats \in Flags, cdl \in Flags :
          Run(i, d, ats, cdl)
    \/ LoopTest
    \/ \E o \in read_data(src_i, data_sources[src_i]), dt \in Work :
          ReadSource(o, dt)
    \/ CheckData
    \/ \E fails \in BOOLEAN, dt \in Work : WriteOutput(fails, dt)
    \/ Sleep
    \/ Interrupt

\* every configuration of sources and outputs, reads and writes that take no
\* time
Next ==
    Step({-1, 0, 1}, {NoDuration, Duration(-1), Duration(0), Duration(2)},
         BOOLEAN, {0})

Spec == Init /\ [][Next]_vars

\* one configuration, every interval and duration, reads and writes that take
\* up to MaxWork
InitSched ==
    /\ Init
    /\ data_sources = << RandomSource(1, 0, << <<"x">> >>),
                         RandomSource(2, 1, << <<"x">>, <<"y">> >>) >>
    /\ data_outputs[1].kind = "Csv"
    /\ data_outputs[2].kind = "Csv"

NextSched ==
    Step(0..MaxInterval, {NoDuration} \cup { Duration(d) : d \in 0..MaxDuration },
         {TRUE}, 0..MaxWork)

SpecSched == InitSched /\ [][NextSched]_vars

MaxRuns == 1          \* times run_data_logging is called again on the same logger

\* run_data_logging has returned or raised; the caller may call it again
Return ==
    /\ pc \in Terminal
    /\ runs < MaxRuns
    /\ runs' = runs + 1
    /\ pc' = "idle"
    /\ ticks' = 0
    /\ slow' = FALSE
    /\ late' = FALSE
    /\ reads' = <<>>
    /\ results' = NoResults
    /\ UNCHANGED << cfgVars, files, now, runVars, log_count, timestamp, data,
                    src_i, data_to_log, out_j >>

\* two sources, a csv output and any second output, run_data_logging called
\* repeatedly
InitRuns ==
    /\ Init
    /\ data_sources = << RandomSource(1, 0, << <<"x">> >>),
                         RandomSource(2, 1, << <<"x">>, <<"y">> >>) >>
    /\ data_outputs[1].kind = "Csv"

NextRuns ==
    \/ Step({0, 1}, {Duration(1), Duration(2)}, BOOLEAN, {0})
    \/ Return

SpecRuns == InitRuns /\ [][NextRuns]_vars

\* ===================================================================
\* Name resolution of DataLoggerTimeTrigger (data_sources_mapping,
\* data_outputs_mapping, data_rename_mapping)
\* ===================================================================
MaxRules == 2         \* rename rules of one logger

SourceNameSet == { <<"s">>, <<"t">>, <<"s", ":">> }
VarNameSet == { <<"x">>, <<"y">>, <<":", "x">> }
NewNameSet == { <<"x">>, <<"z">> }
DelimSet == { <<":">>, <<"_">> }

\* the declared variable names of a source: one or two names, no name twice
VarLists ==
    { <<a>> : a \in VarNameSet }
    \cup { p \in VarNameSet \X VarNameSet : p[1] # p[2] }

Source(name, names) == [name |-> name, names |-> names]
Sink(name, needsTimestamp) == [name |-> name, needsTimestamp |-> needsTimestamp]
Rule(source, sink, old, new) ==
    [source |-> source, sink |-> sink, old |-> old, new |-> new]

IsUnique(names) ==
    \A a, b \in 1..Len(names) : a # b => names[a] # names[b]

\* step 1: the declared name with a matching rename rule applied
Renamed(rules, source, sink, v) ==
    IF \E r \in rules : r.source = source /\ r.sink = sink /\ r.old = v
    THEN (CHOOSE r \in rules : r.source = source /\ r.sink = sink /\ r.old = v).new
    ELSE v

Candidates(rules, sources, sink, i) ==
    [k \in 1..Len(sources[i].names) |->
        Renamed(rules, sources[i].name, sink, sources[i].names[k])]

\* step 2: the candidates of all contributing sources, in source order
AllCandidates(rules, sources, sink) ==
    Flatten([i \in 1..Len(sources) |-> Candidates(rules, sources, sink, i)])

NeedsPrefixAnySink(rules, sources, sinks, j) ==
    \E j2 \in 1..Len(sinks) : ~IsUnique(AllCandidates(rules, sources, sinks[j2].name))

\* steps 3 and 4: the sink falls back to prefixing when a candidate is duplicated
NeedsPrefix(rules, sources, sinks, j) ==
    ~IsUnique(AllCandidates(rules, sources, sinks[j].name))

PrefixedNamesFirstSource(sources, i, delim) ==
    [k \in 1..Len(sources[i].names) |-> sources[1].name \o delim \o sources[i].names[k]]

\* '<sourceName><delimiter>' before every declared name of source i
PrefixedNames(sources, i, delim) ==
    [k \in 1..Len(sources[i].names) |-> sources[i].name \o delim \o sources[i].names[k]]

FallbackNamesRenamed(rules, sources, sink, i, delim) ==
    [k \in 1..Len(sources[i].names) |->
        sources[i].name \o delim \o Candidates(rules, sources, sink, i)[k]]

\* step 4: the renaming is discarded, the declared names are prefixed
FallbackNames(rules, sources, sink, i, delim) == PrefixedNames(sources, i, delim)

Count(names, v) == Cardinality({ k \in 1..Len(names) : names[k] = v })

FinalNamesPartial(rules, sources, sinks, j, i, delim) ==
    [k \in 1..Len(sources[i].names) |->
        IF Count(AllCandidates(rules, sources, sinks[j].name),
                 Candidates(rules, sources, sinks[j].name, i)[k]) > 1
        THEN FallbackNames(rules, sources, sinks[j].name, i, delim)[k]
        ELSE Candidates(rules, sources, sinks[j].name, i)[k]]

\* steps 3 and 4: the final names of source i for sink j
FinalNames(rules, sources, sinks, j, i, delim) ==
    IF NeedsPrefix(rules, sources, sinks, j)
    THEN FallbackNames(rules, sources, sinks[j].name, i, delim)
    ELSE Candidates(rules, sources, sinks[j].name, i)

AllFinalNames(rules, sources, sinks, j, delim) ==
    Flatten([i \in 1..Len(sources) |-> FinalNames(rules, sources, sinks, j, i, delim)])

ValidRulesSourceOnly(rules, sources, sinks) ==
    \A r \in rules : \E i \in 1..Len(sources) : sources[i].name = r.source

\* construction: every rename rule names a source and a sink of the logger
ValidRules(rules, sources, sinks) ==
    \A r \in rules :
        /\ \E i \in 1..Len(sources) : sources[i].name = r.source
        /\ \E j \in 1..Len(sinks) : sinks[j].name = r.sink

ResolvableUnchecked(rules, sources, sinks, delim) == TRUE

\* step 5: the names are checked again after prefixing
Resolvable(rules, sources, sinks, delim) ==
    \A j \in 1..Len(sinks) : IsUnique(AllFinalNames(rules, sources, sinks, j, delim))

\* header(sink) = [timestampKey?] + the final names of the sources
Header(rules, sources, sinks, j, delim) ==
    (IF sinks[j].needsTimestamp THEN <<TimeKey>> ELSE <<>>)
        \o AllFinalNames(rules, sources, sinks, j, delim)

loggerVars == << data_sources, data_outputs, files, pc, now, interval, end_time,
                 start_time, next_log_time, log_count, ticks, add_timestamp,
                 check_data_length, timestamp, data, src_i, data_to_log, out_j,
                 slow, late, reads, results, runs >>

InitResolve ==
    /\ LoggerInit
    /\ data_sources = << RandomSource(1, 0, << <<"x">> >>),
                         RandomSource(2, 1, << <<"x">>, <<"y">> >>) >>
    /\ data_outputs[1].kind = "Csv"
    /\ data_outputs[2].kind = "Csv"
    /\ \E a \in SourceNameSet, b \in SourceNameSet, va \in VarLists, vb \in VarLists :
          /\ a # b
          /\ r_sources = << Source(a, va), Source(b, vb) >>
    /\ r_sinks = << Sink(<<"A">>, TRUE), Sink(<<"B">>, FALSE) >>
    /\ r_rules = {}
    /\ r_delim \in DelimSet
    /\ r_pc = "config"
    /\ resolved = <<>>
    /\ MqttOff
    /\ OutputOff
    /\ ConnOff
    /\ DevOff

\* one more entry of data_rename_mapping: rename `old` of source i for sink j
AddRule(i, j, old, new) ==
    /\ r_pc = "config"
    /\ Cardinality(r_rules) < MaxRules
    /\ old \in Range(r_sources[i].names)
    /\ ~\E r \in r_rules :
          r.source = r_sources[i].name /\ r.sink = r_sinks[j].name /\ r.old = old
    /\ r_rules' = r_rules \cup { Rule(r_sources[i].name, r_sinks[j].name, old, new) }
    /\ UNCHANGED << loggerVars, mqttVars, outVars, connVars, devVars, r_sources,
                    r_sinks, r_delim, r_pc, resolved >>

\* DataLoggerTimeTrigger.__init__: validate, resolve the names once
Construct ==
    /\ r_pc = "config"
    /\ IF /\ ValidRules(r_rules, r_sources, r_sinks)
          /\ Resolvable(r_rules, r_sources, r_sinks, r_delim)
       THEN /\ r_pc' = "accepted"
            /\ resolved' = [j \in 1..Len(r_sinks) |->
                             [i \in 1..Len(r_sources) |->
                                FinalNames(r_rules, r_sources, r_sinks, j, i, r_delim)]]
       ELSE /\ r_pc' = "ConfigurationError"
            /\ UNCHANGED resolved
    /\ UNCHANGED << loggerVars, mqttVars, outVars, connVars, devVars, r_sources,
                    r_sinks, r_rules, r_delim >>

NextResolve ==
    \/ \E i \in 1..2, j \in 1..2, old \in VarNameSet, new \in NewNameSet :
          AddRule(i, j, old, new)
    \/ Construct

SpecResolve == InitResolve /\ [][NextResolve]_vars

SinkNameSet == { <<"A">>, <<"B">>, <<"C">> }

\* one more entry of data_rename_mapping under any source name and any sink
\* name, of the logger or not
AddRuleNamed(source, sink, old, new) ==
    /\ r_pc = "config"
    /\ Cardinality(r_rules) < MaxRules
    /\ \A i \in 1..Len(r_sources) :
          r_sources[i].name = source => old \in Range(r_sources[i].names)
    /\ ~\E r \in r_rules : r.source = source /\ r.sink = sink /\ r.old = old
    /\ r_rules' = r_rules \cup { Rule(source, sink, old, new) }
    /\ UNCHANGED << loggerVars, mqttVars, outVars, connVars, devVars, r_sources,
                    r_sinks, r_delim, r_pc, resolved >>

\* sources s and t, sinks A and B; the mapping may name s, t, 's:', A, B, C
InitRules ==
    /\ InitResolve
    /\ r_sources = << Source(<<"s">>, << <<"x">>, <<"y">> >>),
                      Source(<<"t">>, << <<"x">> >>) >>

NextRules ==
    \/ \E source \in SourceNameSet, sink \in SinkNameSet,
          old \in VarNameSet, new \in NewNameSet :
          AddRuleNamed(source, sink, old, new)
    \/ Construct

SpecRules == InitRules /\ [][NextRules]_vars

\* ===================================================================
\* The MQTT source (Mqtt/MqttDataSourceOutput.py): on_message runs in the
\* network thread of the client (loop_start), read_data in the thread of the
\* logger.  A payload is identified by the number of its message.
\* ===================================================================
MaxUpdates == 3       \* messages delivered to on_message
MaxReads == 3         \* read_data calls

\* the topics messages are published on
Topics == {"a", "b"}

\* subscribe_topics: topic filters; "#" is the multi-level wildcard
SubscribeChoices == { {"a"}, {"a", "b"}, {"#"} }

\* the broker delivers a message to a client that subscribed to a filter
\* matching the message's topic
Matches(filter, t) == filter = t \/ filter = "#"

EmptyBuffer == [t \in Topics |-> 0]

\* the payloads a mapping holds
Payloads(buf) == { buf[t] : t \in Topics } \ {0}

ClearedNothing(buf) == buf

\* line 28: self._data_buffer.clear()
Cleared(buf) == EmptyBuffer

\* line 24: self._data_buffer.update(data), data = {topic: float(payload)}
Updated(buf, t, n) == [buf EXCEPT ![t] = n]

InitMqtt ==
    /\ LoggerInit
    /\ data_sources = << RandomSource(1, 0, << <<"x">> >>),
                         RandomSource(2, 1, << <<"x">>, <<"y">> >>) >>
    /\ data_outputs[1].kind = "Csv"
    /\ data_outputs[2].kind = "Csv"
    /\ ResolverOff
    /\ OutputOff
    /\ ConnOff
    /\ DevOff
    /\ m_buffer = EmptyBuffer
    /\ m_pc = "idle"
    /\ m_data = EmptyBuffer
    /\ m_sent = 0
    /\ m_overwritten = {}
    /\ m_reads = <<>>
    /\ m_window = <<>>
    /\ m_expect = <<>>
    /\ m_topics \in SubscribeChoices

\* on_message -> synchronize_data_buffer (lines 152-158, 23-24), in the
\* network thread
OnMessage(t) ==
    /\ m_pc \in {"idle", "copied"}
    /\ m_sent < MaxUpdates
    /\ \E filter \in m_topics : Matches(filter, t)
    /\ m_sent' = m_sent + 1
    /\ m_buffer' = Updated(m_buffer, t, m_sent + 1)
    /\ m_overwritten' = m_overwritten \cup ({m_buffer[t]} \ {0})
    /\ m_window' = IF m_pc = "idle"
                   THEN Append(m_window, [topic |-> t, n |-> m_sent + 1])
                   ELSE m_window
    /\ UNCHANGED << loggerVars, resolverVars, outVars, connVars, devVars, m_pc,
                    m_data,
                    m_reads, m_expect, m_topics >>

\* read_data, line 27: data = self._data_buffer.copy()
MqttReadCopy ==
    /\ m_pc = "idle"
    /\ Len(m_reads) < MaxReads
    /\ m_data' = m_buffer
    /\ m_expect' = Append(m_expect, m_window)
    /\ m_pc' = "copied"
    /\ UNCHANGED << loggerVars, resolverVars, outVars, connVars, devVars, m_buffer,
                    m_sent, m_overwritten, m_reads, m_window, m_topics >>

\* read_data, lines 28-29: self._data_buffer.clear(); return data
MqttReadClear ==
    /\ m_pc = "copied"
    /\ m_buffer' = Cleared(m_buffer)
    /\ m_reads' = Append(m_reads, m_data)
    /\ m_window' = <<>>
    /\ m_pc' = "idle"
    /\ UNCHANGED << loggerVars, resolverVars, outVars, connVars, devVars, m_data,
                    m_sent, m_overwritten, m_expect, m_topics >>

NextMqtt ==
    \/ \E t \in Topics : OnMessage(t)
    \/ MqttReadCopy
    \/ MqttReadClear

SpecMqtt == InitMqtt /\ [][NextMqtt]_vars

\* ===================================================================
\* The csv output of Base/DataOutput.py: construction and
\* check_and_log_data
\* ===================================================================
MaxWrites == 3        \* check_and_log_data calls on one output
MaxBuilds == 2        \* outputs constructed on the same file, one after the other

OldLine == << <<"o", "l", "d">> >>

\* what the file holds before the first construction
OldFiles == { <<>>, <<OldLine>>, <<OldLine, OldLine>> }

\* all_data_names of the output
DataNameChoices == { << <<"x">> >>, << <<"x">>, <<"y">> >> }

RowChoices ==
    { <<>>,
      <<TimeCell(0)>>,
      <<TimeCell(0), ValueCell(1, 1)>>,
      <<TimeCell(1), NoneCell>>,
      <<TimeCell(1), ValueCell(1, 1), ValueCell(1, 2)>>,
      <<TimeCell(2), ValueCell(1, 1), NoneCell, ValueCell(2, 1)>> }

\* _csv_writer_settings_default, lines 80-83
SettingsDefault == [delimiter |-> ";"]

\* the csv_writer_settings argument: None (as the empty mapping), a supported
\* key, an unsupported key, both
SettingsChoices ==
    { <<>>,
      [delimiter |-> ","],
      [quotechar |-> "'"],
      [delimiter |-> ",", quotechar |-> "'"] }

\* dict.update
UpdatedSettings(d, given) ==
    [k \in DOMAIN d \cup DOMAIN given |-> IF k \in DOMAIN given THEN given[k] ELSE d[k]]

\* lines 112-114: the keys that raise ValueError
InvalidKeys(default, given) == DOMAIN given \ DOMAIN default

DefaultAfterUpdateShared(default, given) == UpdatedSettings(default, given)

\* line 104: the instance updates a copy(), the class attribute stays
DefaultAfterUpdate(default, given) == default

\* DataOutputBase._generate_headers
GenerateHeaders(names, time_in_header) ==
    IF time_in_header THEN <<TimeKey>> \o names ELSE names

WriteToCsvAppending(file, row) == Append(file, row)

\* DataOutputCsv._write_to_csv: open(file_name, 'w'), one row
WriteToCsv(file, row) == <<row>>

\* DataOutputCsv._append_to_csv: open(file_name, 'a'), one row
AppendToCsv(file, row) == Append(file, row)

Call(row, ret) == [row |-> row, ret |-> ret]

InitOut ==
    /\ LoggerInit
    /\ data_sources = << RandomSource(1, 0, << <<"x">> >>),
                         RandomSource(2, 1, << <<"x">>, <<"y">> >>) >>
    /\ data_outputs[1].kind = "Csv"
    /\ data_outputs[2].kind = "Csv"
    /\ ResolverOff
    /\ MqttOff
    /\ ConnOff
    /\ DevOff
    /\ o_file \in OldFiles
    /\ o_headers = <<>>
    /\ o_pc = "none"
    /\ o_calls = <<>>
    /\ o_prev = <<>>
    /\ o_built = 0
    /\ o_default = SettingsDefault
    /\ o_settings = <<>>
    /\ o_arg = <<>>

\* DataOutputCsv.__init__ (lines 85-120): the headers, the settings (ValueError
\* for an unsupported key), then the header line
ConstructCsv(names, given) ==
    /\ o_pc \in {"none", "ready", "ValueError"}
    /\ o_built < MaxBuilds
    /\ o_built' = o_built + 1
    /\ o_arg' = given
    /\ o_prev' = o_file
    /\ o_calls' = <<>>
    /\ IF InvalidKeys(o_default, given) # {}
       THEN /\ o_pc' = "ValueError"
            /\ UNCHANGED << o_file, o_headers, o_settings, o_default >>
       ELSE /\ o_settings' = UpdatedSettings(o_default, given)
            /\ o_default' = DefaultAfterUpdate(o_default, given)
            /\ o_headers' = GenerateHeaders(names, TRUE)
            /\ o_file' = WriteToCsv(o_file, GenerateHeaders(names, TRUE))
            /\ o_pc' = "ready"
    /\ UNCHANGED << loggerVars, resolverVars, mqttVars, connVars, devVars >>

\* DataOutputBase.check_and_log_data (lines 42-53) with DataOutputCsv._log_data;
\* fails: open() or the write raises
CheckAndLogData(row, fails) ==
    /\ o_pc = "ready"
    /\ Len(o_calls) < MaxWrites
    /\ o_prev' = o_file
    /\ IF OutputCheckDataLength([headers |-> o_headers], row)
       THEN IF fails
            THEN /\ o_calls' = Append(o_calls, Call(row, "raised"))
                 /\ UNCHANGED o_file
            ELSE /\ o_file' = AppendToCsv(o_file, row)
                 /\ o_calls' = Append(o_calls, Call(row, "True"))
       ELSE /\ o_calls' = Append(o_calls, Call(row, "False"))
            /\ UNCHANGED o_file
    /\ UNCHANGED << loggerVars, resolverVars, mqttVars, connVars, devVars, o_headers,
                    o_pc, o_built, o_default, o_settings, o_arg >>

NextOut ==
    \/ \E names \in DataNameChoices, given \in SettingsChoices :
          ConstructCsv(names, given)
    \/ \E row \in RowChoices, fails \in BOOLEAN : CheckAndLogData(row, fails)

SpecOut == InitOut /\ [][NextOut]_vars

\* ------------------------------------------------- connection with retry
\* AdsDataSourceOutput.__init__ / MqttDataSourceOutput.__init__: the adapter
\* connects with _plc_connect_with_retry / _mqtt_connect_with_retry and is
\* handed to the caller only when connected.

MaxRetries == 3       \* max_retries

Kinds == {"Ads", "Mqtt"}

\* the connection calls among the logged events
IsCall(e) == e \in {"opened", "failed", "already"}

InitRetry ==
    /\ LoggerInit
    /\ data_sources = << RandomSource(1, 0, << <<"x">> >>),
                         RandomSource(2, 1, << <<"x">>, <<"y">> >>) >>
    /\ data_outputs[1].kind = "Csv"
    /\ data_outputs[2].kind = "Csv"
    /\ ResolverOff
    /\ MqttOff
    /\ OutputOff
    /\ DevOff
    /\ c_kind \in Kinds
    /\ c_max \in 0..MaxRetries
    /\ c_pc = "init"
    /\ c_attempt = 0
    /\ c_connected = FALSE
    /\ c_pending = FALSE
    /\ c_log = <<>>

\* attempt = 1
RetryStart ==
    /\ c_pc = "init"
    /\ c_attempt' = 1
    /\ c_pc' = "while"
    /\ UNCHANGED << loggerVars, resolverVars, mqttVars, outVars, devVars, c_kind, c_max,
                    c_connected, c_pending, c_log >>

\* while attempt <= max_retries
RetryWhile ==
    /\ c_pc = "while"
    /\ c_pc' = IF c_attempt <= c_max THEN "connect" ELSE "after"
    /\ UNCHANGED << loggerVars, resolverVars, mqttVars, outVars, devVars, c_kind, c_max,
                    c_attempt, c_connected, c_pending, c_log >>

\* _plc_connect / _mqtt_connect: one try.  ok: plc.open() and the state read
\* went through (ads); connect() and loop_start() went through (mqtt, the
\* connection counts once the network thread has processed the CONNACK)
Connect(ok) ==
    /\ c_pc = "connect"
    /\ IF c_connected
       THEN /\ c_log' = Append(c_log, "already")
            /\ UNCHANGED << c_connected, c_pending >>
       ELSE /\ c_log' = Append(c_log, IF ok THEN "opened" ELSE "failed")
            /\ IF c_kind = "Ads"
               THEN c_connected' = ok /\ UNCHANGED c_pending
               ELSE c_pending' = (c_pending \/ ok) /\ UNCHANGED c_connected
    /\ c_pc' = "check"
    /\ UNCHANGED << loggerVars, resolverVars, mqttVars, outVars, devVars, c_kind, c_max,
                    c_attempt >>

\* the network thread processes the broker's CONNACK: is_connected() is True
ConnAck ==
    /\ c_kind = "Mqtt"
    /\ c_pc \in {"while", "connect", "check", "after"}
    /\ c_pending
    /\ ~c_connected
    /\ c_connected' = TRUE
    /\ c_pending' = FALSE
    /\ c_log' = Append(c_log, "ack")
    /\ UNCHANGED << loggerVars, resolverVars, mqttVars, outVars, devVars, c_kind, c_max,
                    c_pc, c_attempt >>

BreakWhenConnected(connected, attempt, max) == connected

\* if connected or attempt == max_retries: break
Break(connected, attempt, max) == connected \/ attempt = max

\* the end of the loop body: break, or attempt += 1 and time.sleep(retry_period)
RetryCheck ==
    /\ c_pc = "check"
    /\ IF Break(c_connected, c_attempt, c_max)
       THEN /\ c_pc' = "after"
            /\ UNCHANGED << c_attempt, c_log >>
       ELSE /\ c_attempt' = c_attempt + 1
            /\ c_log' = Append(c_log, "wait")
            /\ c_pc' = "while"
    /\ UNCHANGED << loggerVars, resolverVars, mqttVars, outVars, devVars, c_kind, c_max,
                    c_connected, c_pending >>

\* __init__ after the retry: the adapter is constructed, or sys.exit(1)
AfterRetry ==
    /\ c_pc = "after"
    /\ c_pc' = IF c_connected THEN "ready" ELSE "exit"
    /\ UNCHANGED << loggerVars, resolverVars, mqttVars, outVars, devVars, c_kind, c_max,
                    c_attempt, c_connected, c_pending, c_log >>

\* the steps of the constructing thread
RetryStep ==
    \/ RetryStart
    \/ RetryWhile
    \/ \E ok \in BOOLEAN : Connect(ok)
    \/ RetryCheck
    \/ AfterRetry

NextRetry == RetryStep \/ ConnAck

\* the constructing thread keeps running: time.sleep and the calls return
SpecRetry == InitRetry /\ [][NextRetry]_vars /\ WF_vars(RetryStep)

\* ------------------------------------------------ one adapter, two threads
\* examples/e04_beckhoff.py, lines 65-80: logger_to_csv reads from the
\* AdsDataSourceOutput in thread 'to_csv' while logger_to_ads writes to the
\* same instance in thread 'to_ads'.  Both calls go to the one
\* pyads.Connection self.plc.

MaxCalls == 4         \* calls of read_data, and of log_data, on the adapter

InitShared ==
    /\ LoggerInit
    /\ data_sources = << RandomSource(1, 0, << <<"x">> >>),
                         RandomSource(2, 1, << <<"x">>, <<"y">> >>) >>
    /\ data_outputs[1].kind = "Csv"
    /\ data_outputs[2].kind = "Csv"
    /\ ResolverOff
    /\ MqttOff
    /\ OutputOff
    /\ ConnOff
    /\ s_reader = "idle"
    /\ s_writer = "idle"
    /\ s_reads = 0
    /\ s_writes = 0
    /\ d_kind = "off"
    /\ d_names = <<>>
    /\ d_calls = <<>>
    /\ d_sent = <<>>

\* thread 'to_csv': AdsDataSourceOutput.read_data is entered, plc_connected
ReadDataCall ==
    /\ s_reader = "idle"
    /\ s_reads < MaxCalls
    /\ s_reader' = "called"
    /\ UNCHANGED << loggerVars, resolverVars, mqttVars, outVars, connVars,
                    s_writer, s_reads, s_writes, d_kind, d_names, d_calls, d_sent >>

\* AdsDataSource.read_data: plc.read_list_by_name(...) begins
ReadBegin ==
    /\ s_reader = "called"
    /\ s_reader' = "io"
    /\ UNCHANGED << loggerVars, resolverVars, mqttVars, outVars, connVars,
                    s_writer, s_reads, s_writes, d_kind, d_names, d_calls, d_sent >>

\* plc.read_list_by_name(...) returns
ReadEnd ==
    /\ s_reader = "io"
    /\ s_reader' = "idle"
    /\ s_reads' = s_reads + 1
    /\ UNCHANGED << loggerVars, resolverVars, mqttVars, outVars, connVars,
                    s_writer, s_writes, d_kind, d_names, d_calls, d_sent >>

\* thread 'to_ads': AdsDataSourceOutput.log_data is entered, plc_connected
LogDataCall ==
    /\ s_writer = "idle"
    /\ s_writes < MaxCalls
    /\ s_writer' = "called"
    /\ UNCHANGED << loggerVars, resolverVars, mqttVars, outVars, connVars,
                    s_reader, s_reads, s_writes, d_kind, d_names, d_calls, d_sent >>

\* AdsDataOutput._log_data: plc.write_list_by_name(...) begins
WriteBegin ==
    /\ s_writer = "called"
    /\ s_writer' = "io"
    /\ UNCHANGED << loggerVars, resolverVars, mqttVars, outVars, connVars,
                    s_reader, s_reads, s_writes, d_kind, d_names, d_calls, d_sent >>

\* plc.write_list_by_name(...) returns
WriteEnd ==
    /\ s_writer = "io"
    /\ s_writer' = "idle"
    /\ s_writes' = s_writes + 1
    /\ UNCHANGED << loggerVars, resolverVars, mqttVars, outVars, connVars,
                    s_reader, s_reads, d_kind, d_names, d_calls, d_sent >>

NextShared ==
    \/ ReadDataCall
    \/ ReadBegin
    \/ ReadEnd
    \/ LogDataCall
    \/ WriteBegin
    \/ WriteEnd

SpecShared == InitShared /\ [][NextShared]_vars

\* ------------------------------------------------------- device outputs
\* AdsDataOutput._log_data and MqttDataOutput.log_data: what a log call sends
\* to the device.  A mapping is the set of its <<name, value>> items.

MaxSends == 2         \* log calls on the device output

DeviceNames == << <<"p">>, <<"q">> >>

Cells == { ValueCell(1, 1), ValueCell(1, 2), NoneCell }

\* the rows the ADS output can be given: up to three cells
AdsRows == UNION { [1..n -> Cells] : n \in 0..3 }

\* the mappings the mqtt output can be given: some of its topics, with values
MqttDicts ==
    UNION { { { <<k, f[k]>> : k \in K } : f \in [K -> Cells] } :
              K \in SUBSET Range(DeviceNames) }

\* dict(zip(self._headers, row))
Zip(names, row) ==
    { <<names[k], row[k]>> :
        k \in 1..(IF Len(names) <= Len(row) THEN Len(names) ELSE Len(row)) }

CleanKeysOfNothing(d) == d

\* clean_keys_with_none_values: the items whose value is not None
CleanKeysWithNoneValues(d) == { item \in d : item[2] # NoneCell }

InitDevice ==
    /\ LoggerInit
    /\ data_sources = << RandomSource(1, 0, << <<"x">> >>),
                         RandomSource(2, 1, << <<"x">>, <<"y">> >>) >>
    /\ data_outputs[1].kind = "Csv"
    /\ data_outputs[2].kind = "Csv"
    /\ ResolverOff
    /\ MqttOff
    /\ OutputOff
    /\ ConnOff
    /\ s_reader = "off"
    /\ s_writer = "off"
    /\ s_reads = 0
    /\ s_writes = 0
    /\ d_kind \in {"Ads", "Mqtt"}
    /\ d_names = DeviceNames
    /\ d_calls = <<>>
    /\ d_sent = <<>>

\* AdsDataSourceOutput.log_data -> check_and_log_data -> AdsDataOutput._log_data:
\* one plc.write_list_by_name of the cleaned mapping, if anything is left
AdsLogRow(row) ==
    /\ d_kind = "Ads"
    /\ Len(d_calls) < MaxSends
    /\ d_calls' = Append(d_calls, row)
    /\ d_sent' =
          IF /\ OutputCheckDataLength([headers |-> d_names], row)
             /\ CleanKeysWithNoneValues(Zip(d_names, row)) # {}
          THEN Append(d_sent, CleanKeysWithNoneValues(Zip(d_names, row)))
          ELSE d_sent
    /\ UNCHANGED << loggerVars, resolverVars, mqttVars, outVars, connVars,
                    s_reader, s_writer, s_reads, s_writes, d_kind, d_names >>

\* MqttDataOutput.log_data: one system.publish per item of the cleaned mapping
MqttLogData(dict) ==
    /\ d_kind = "Mqtt"
    /\ Len(d_calls) < MaxSends
    /\ d_calls' = Append(d_calls, dict)
    /\ d_sent' =
          IF dict # {} /\ CleanKeysWithNoneValues(dict) # {}
          THEN Append(d_sent, CleanKeysWithNoneValues(dict))
          ELSE d_sent
    /\ UNCHANGED << loggerVars, resolverVars, mqttVars, outVars, connVars,
                    s_reader, s_writer, s_reads, s_writes, d_kind, d_names >>

NextDevice ==
    \/ \E row \in AdsRows : AdsLogRow(row)
    \/ \E dict \in MqttDicts : MqttLogData(dict)

SpecDevice == InitDevice /\ [][NextDevice]_vars

\* ===================================================================
\* Properties of run_data_logging and of the logger's construction
\* ===================================================================
Outputs == 1..Len(data_outputs)
Sources == 1..Len(data_sources)

\* output j holds the row of the current tick as its last entry
Persisted(j) ==
    /\ files[j] # <<>>
    /\ Last(files[j]).tick = ticks
    /\ Last(files[j]).row = data_to_log

SinkFailed(j) == results[j] \in {"raised", "rejected"}

\* C1: when the dispatch of a tick is over and one output failed in it (its
\* write raised, or the row's width did not match its header), every other
\* output that did not fail itself and had something to write holds the row
\* of that tick, wherever the failing output stands in the declaration order.
C1_SinkFailureIsolated ==
    \A j, k \in Outputs :
        ( /\ pc \in {"sleep", "Raised"}
          /\ SinkFailed(j)
          /\ k # j
          /\ results[k] \notin {"raised", "rejected", "empty"} )
        => Persisted(k)

\* C2: a session started with a valid interval and duration ends only as
\* Completed or Cancelled: no error of a read or of a write ends it.
C2_EndsCompletedOrCancelled ==
    (pc \in Terminal /\ pc # "ValueError") => pc \in {"Completed", "Cancelled"}

ReadFailedOrEmpty(i) ==
    i <= Len(reads) /\ (reads[i].raised \/ reads[i].values = <<>>)

ExpectedValues(i) ==
    IF i > Len(reads) \/ ReadFailedOrEmpty(i)
    THEN [k \in 1..Len(data_sources[i].headers) |-> NoneCell]
    ELSE reads[i].values

ExpectedRow ==
    (IF add_timestamp THEN <<timestamp>> ELSE <<>>)
        \o Flatten([i \in Sources |-> ExpectedValues(i)])

\* C3: when a read failed or returned nothing in a tick and no write raised,
\* the tick still took place: every csv output holds, for that tick, a row
\* in which the variables of that source are missing and the values of the
\* other sources stand in their columns.
C3_FailedReadGivesMissing ==
    ( /\ pc \in {"sleep", "Raised"}
      /\ \E i \in Sources : ReadFailedOrEmpty(i)
      /\ \A j \in Outputs : results[j] # "raised" )
    => \A j \in Outputs :
          data_outputs[j].kind = "Csv" =>
              /\ files[j] # <<>>
              /\ Last(files[j]).tick = ticks
              /\ Last(files[j]).row = ExpectedRow

RECURSIVE HeaderOffset(_, _)
HeaderOffset(sources, i) ==
    IF i = 1 THEN 0 ELSE HeaderOffset(sources, i - 1) + Len(sources[i - 1].headers)

NoSharedNames(sources) ==
    \A a, b \in 1..Len(sources) :
        a # b => Range(sources[a].headers) \cap Range(sources[b].headers) = {}

\* the names under which output j lists the variables of source i
NamesFor(i, j) ==
    SubSeq(data_outputs[j].headers,
           2 + HeaderOffset(data_sources, i),
           1 + HeaderOffset(data_sources, i) + Len(data_sources[i].headers))

\* C9: when no two sources share a variable name, the names every csv output
\* lists for a source are the source's declared names, in declared order and
\* without prefix.
C9_DeclaredNamesVerbatim ==
    NoSharedNames(data_sources) =>
        \A i \in Sources, j \in Outputs :
            data_outputs[j].kind = "Csv" => NamesFor(i, j) = data_sources[i].headers

C9_Witness ==
    /\ NoSharedNames(data_sources)
    /\ \E j \in Outputs : data_outputs[j].kind = "Csv" /\ files[j] # <<>>

SessionDuration == end_time[1] - start_time

\* C10 as stated: with reads and writes that take no time, a completed
\* session of duration D and interval I has performed floor(D / I) ticks.
C10_TicksFloor ==
    (pc = "Completed" /\ ~slow) => ticks = SessionDuration \div interval

\* C10 as amended: it has performed ceil(D / I) ticks.
C10_TicksCeil ==
    (pc = "Completed" /\ ~slow) =>
        ticks = (SessionDuration + interval - 1) \div interval

C10_Witness ==
    /\ pc = "Completed"
    /\ ~slow
    /\ SessionDuration % interval # 0
    /\ ticks >= 2

Started == pc \in Running \cup {"Completed", "Cancelled", "Raised"}

\* C11: during and after a run the next deadline is start_time + k * interval,
\* k the number of ticks begun so far, however long the work of a tick took.
C11_DeadlineOnGrid ==
    Started => next_log_time = start_time + ticks * interval

C11_Witness ==
    /\ pc = "loop"
    /\ ticks >= 2
    /\ now > next_log_time

\* the time at which the tick of a logged row began (its timestamp)
TickTime(e) == e.row[1][1]

\* C12: with a finite duration every tick begins before start_time + duration
\* (the tick in progress and every tick that left a row in an output), and
\* the session is Completed only at or after that time.
C12_NoTickAfterEnd ==
    (Started /\ end_time # <<>>) =>
        /\ ticks > 0 => timestamp[1] < end_time[1]
        /\ \A j \in Outputs : \A n \in 1..Len(files[j]) :
              TickTime(files[j][n]) < end_time[1]
        /\ pc = "Completed" => now >= end_time[1]

C12_Witness ==
    /\ pc = "Completed"
    /\ now > end_time[1]
    /\ ticks >= 2
    /\ \A j \in Outputs : Len(files[j]) = ticks

\* C13: when the work of a tick ended after the next deadline the loop goes
\* on at once, and when it ended before the deadline the loop goes on at the
\* deadline; the next tick begins at the time the loop goes on.
C13_SleepUntilDeadline ==
    [][ /\ (pc = "sleep" /\ pc' = "loop") =>
              now' = IF now > next_log_time THEN now ELSE next_log_time
        /\ (pc = "loop" /\ pc' = "read") => timestamp' = TimeCell(now) ]_vars

C13_Witness ==
    /\ pc = "read"
    /\ ticks >= 2
    /\ late
    /\ timestamp[1] > start_time + (ticks - 1) * interval

\* C14: when the duration is a whole multiple of the interval and the work
\* of every tick took less than an interval, the loop is left exactly when
\* duration / interval ticks were begun, and the completed session has
\* written that many rows to every output.
C14_WholeMultipleTicks ==
    ( /\ pc \in {"loop", "Completed"}
      /\ end_time # <<>>
      /\ SessionDuration % interval = 0
      /\ ~late )
    => /\ pc = "loop" =>
            (LoopCondition(now, end_time) <=> ticks < SessionDuration \div interval)
       /\ pc = "Completed" =>
            /\ ticks = SessionDuration \div interval
            /\ \A j \in Outputs : Len(files[j]) = SessionDuration \div interval

C14_Witness ==
    /\ pc = "Completed"
    /\ ~late
    /\ slow
    /\ SessionDuration % interval = 0
    /\ ticks >= 2
    /\ \A j \in Outputs : Len(files[j]) = ticks

\* C15: a cancelled session has no tick whose row was written to one output
\* and not to another.
C15_NoPartialDispatch ==
    pc = "Cancelled" =>
        ~\E j, k \in Outputs : results[j] = "written" /\ results[k] = "none"

\* C16: when a session without duration is cancelled in tick k, every output
\* holds the rows of the ticks 1 to k.
C16_CancelKeepsTicks ==
    (pc = "Cancelled" /\ end_time = <<>>) =>
        \A j \in Outputs : Len(files[j]) = ticks

\* ===================================================================
\* Properties of the MQTT source
\* ===================================================================
\* the number of read_data calls that returned the payload of message n
Returns(n) == Cardinality({ k \in 1..Len(m_reads) : n \in Payloads(m_reads[k]) })

\* C17: every message delivered to on_message is returned by exactly one
\* read_data, unless a later message on its topic replaced it in the buffer;
\* until then it is in the buffer or in the copy a running read_data holds.
C17_NoUpdateLost ==
    \A n \in 1..m_sent :
        /\ Returns(n) <= 1
        /\ \/ Returns(n) = 1
           \/ n \in m_overwritten
           \/ n \in Payloads(m_buffer)
           \/ m_pc = "copied" /\ n \in Payloads(m_data)

\* per topic the payload of the last message of a log, 0 when it has none
LastWrite(log) ==
    [t \in Topics |->
        LET ks == { k \in 1..Len(log) : log[k].topic = t }
        IN  IF ks = {} THEN 0
            ELSE log[CHOOSE k \in ks : \A h \in ks : h <= k].n]

\* C18: each read_data returns, per topic, the payload of the last message
\* delivered between the return of the previous read_data and its own call,
\* and nothing else: no payload an earlier read_data returned, and an empty
\* mapping when no message was delivered in between.
C18_LastWriteWinsNoStale ==
    \A k \in 1..Len(m_reads) :
        /\ m_reads[k] = LastWrite(m_expect[k])
        /\ \A h \in 1..(k - 1) : Payloads(m_reads[h]) \cap Payloads(m_reads[k]) = {}

C18_Witness ==
    /\ Len(m_reads) >= 2
    /\ Len(m_expect[1]) >= 2
    /\ m_expect[1][1].topic = m_expect[1][2].topic
    /\ Payloads(m_reads[1]) # {}
    /\ m_expect[2] = <<>>
    /\ m_reads[2] = EmptyBuffer

\* ===================================================================
\* Properties of the csv output of Base/DataOutput.py
\* ===================================================================
\* C19: check_and_log_data with a row whose width differs from the width of
\* the header returns False, raises nothing and leaves the file as it was;
\* with a row of the header's width it appends the row once and returns True
\* (or the error of the file system leaves it).
C19_MismatchRejected ==
    (o_pc = "ready" /\ o_calls # <<>>) =>
        IF Len(Last(o_calls).row) # Len(o_headers)
        THEN /\ Last(o_calls).ret = "False"
             /\ o_file = o_prev
        ELSE \/ /\ Last(o_calls).ret = "True"
                /\ o_file = Append(o_prev, Last(o_calls).row)
             \/ /\ Last(o_calls).ret = "raised"
                /\ o_file = o_prev

C19_Witness ==
    /\ o_pc = "ready"
    /\ Len(o_calls) >= 2
    /\ Last(o_calls).ret = "False"
    /\ Len(Last(o_calls).row) > Len(o_headers)
    /\ \E k \in 1..Len(o_calls) : o_calls[k].ret = "True"

RECURSIVE AcceptedRows(_)
AcceptedRows(calls) ==
    IF calls = <<>> THEN <<>>
    ELSE (IF Head(calls).ret = "True" THEN <<Head(calls).row>> ELSE <<>>)
             \o AcceptedRows(Tail(calls))

\* C20: after the construction of a csv output and N accepted writes the
\* file holds N + 1 lines: the header, then the rows of the accepted writes
\* in their order; nothing of what the file held before the construction
\* and no row of a rejected write is in it.
C20_CsvFileLines ==
    o_pc = "ready" =>
        /\ Len(o_file) = Len(AcceptedRows(o_calls)) + 1
        /\ o_file = <<o_headers>> \o AcceptedRows(o_calls)
        /\ \A k \in 1..Len(o_file) : o_file[k] # OldLine

C20_Witness ==
    /\ o_pc = "ready"
    /\ o_built = 2
    /\ Len(AcceptedRows(o_calls)) >= 2
    /\ \E k \in 1..Len(o_calls) : o_calls[k].ret = "False"

\* the column of variable k of source i in a csv output's header
Column(i, k) == 1 + HeaderOffset(data_sources, i) + k

\* C21: every row a csv output holds is as wide as the output's header, and
\* in the column of a variable stands the value of that variable or the
\* missing marker.
C21_ValuesInColumns ==
    \A j \in Outputs :
        data_outputs[j].kind = "Csv" =>
            \A n \in 1..Len(files[j]) :
                /\ Len(files[j][n].row) = Len(data_outputs[j].headers)
                /\ \A i \in Sources :
                      \A k \in 1..Len(data_sources[i].headers) :
                          files[j][n].row[Column(i, k)] \in {ValueCell(i, k), NoneCell}

\* C22: the header of a csv output is fixed when the logger is constructed,
\* before a row is written: the timestamp key first, then the declared names
\* of the sources, source after source in declaration order.
C22_HeaderAtConstruction ==
    \A j \in Outputs :
        data_outputs[j].kind = "Csv" =>
            /\ data_outputs[j].headers[1] = TimeKey
            /\ Len(data_outputs[j].headers)
                   = 1 + HeaderOffset(data_sources, Len(data_sources))
                       + Len(data_sources[Len(data_sources)].headers)
            /\ \A i \in Sources :
                  \A k \in 1..Len(data_sources[i].headers) :
                      data_outputs[j].headers[Column(i, k)] = data_sources[i].headers[k]

C22_Witness ==
    /\ pc = "idle"
    /\ Len(data_sources[1].headers) # Len(data_sources[2].headers)
    /\ \E j \in Outputs : data_outputs[j].kind = "Csv" /\ files[j] = <<>>

\* C23: no step changes an output's header or the declared names of a
\* source: not a write, accepted or rejected, not a tick, not a further call
\* of run_data_logging.
C23_HeaderNeverChanges ==
    [][data_outputs' = data_outputs /\ data_sources' = data_sources]_vars

C23_Witness ==
    /\ runs >= 1
    /\ pc = "sleep"
    /\ \E j \in Outputs : results[j] = "rejected"
    /\ \E j \in Outputs : results[j] = "written"
    /\ \E i \in 1..Len(data_to_log) : data_to_log[i] = NoneCell

\* C24: a call with an interval or a duration that is not positive ends in
\* ValueError with nothing read, nothing written and nothing counted, and
\* every session that did start has a positive interval and a positive
\* duration.
C24_InvalidInputRaises ==
    /\ pc = "ValueError" =>
          /\ ticks = 0
          /\ log_count = 0
          /\ reads = <<>>
          /\ results = NoResults
          /\ \A j \in Outputs : files[j] = <<>>
    /\ Started =>
          /\ interval > 0
          /\ end_time # <<>> => end_time[1] > start_time

C24_Witness == pc = "ValueError" /\ runs = 0

\* the values of the reads of the tick so far, one read after the other
ValuesRead == Flatten([i \in 1..Len(reads) |-> reads[i].values])

\* C26: in every tick the i-th read is the read of the i-th source and the
\* data list holds the values in that order; an output is written only when
\* every source has been read and every output declared before it has been
\* written.
C26_DeclarationOrder ==
    /\ \A i \in 1..Len(reads) : reads[i] \in read_data(i, data_sources[i])
    /\ data = ValuesRead
    /\ pc = "read" => Len(reads) = src_i - 1
    /\ pc = "log" => \A k \in Outputs : results[k] # "none" <=> k < out_j
    /\ \A k \in Outputs :
          results[k] # "none" =>
              /\ Len(reads) = Len(data_sources)
              /\ \A h \in 1..(k - 1) : results[h] # "none"

C26_Witness ==
    /\ ticks = 2
    /\ pc = "log"
    /\ out_j = 2
    /\ data_sources[1] # data_sources[2]
    /\ results[1] = "written"

\* C27: whenever no tick is in progress, the log counter equals the number
\* of ticks of the session so far.
C27_CounterCountsTicks ==
    pc \in {"sleep", "loop", "Completed"} => log_count = ticks

\* C29: a read of an ADS source that fails because the PLC connection is not
\* there does not end the session.
C29_NotReadyIsTransient ==
    \A i \in 1..Len(reads) :
        (data_sources[i].kind = "Ads" /\ reads[i].raised) => pc # "Raised"

\* a rename rule whose key names no source or no sink of the logger
UnknownKey(r) ==
    \/ \A i \in 1..Len(r_sources) : r_sources[i].name # r.source
    \/ \A j \in 1..Len(r_sinks) : r_sinks[j].name # r.sink

\* C25: a construction with a rename rule whose key names an unknown source
\* or an unknown sink ends in ConfigurationError, with no name resolved for a
\* header and no session started.
C25_UnknownRuleKeyRejected ==
    (r_pc # "config" /\ \E r \in r_rules : UnknownKey(r)) =>
        /\ r_pc = "ConfigurationError"
        /\ resolved = <<>>
        /\ pc = "idle"
        /\ ticks = 0
        /\ \A j \in Outputs : files[j] = <<>>

C25_Witness ==
    /\ r_pc = "ConfigurationError"
    /\ Resolvable(r_rules, r_sources, r_sinks, r_delim)
    /\ \E r \in r_rules : r.source = <<"s">> /\ r.sink = <<"C">>
    /\ \A r \in r_rules : r.source \in {<<"s">>, <<"t">>}

\* the keys of a mapping read_data returned
Keys(buf) == { t \in Topics : buf[t] # 0 }

\* C28: the keys of every mapping the mqtt source returned are among the
\* names the source declared, all_topics.
C28_KeysAreDeclared ==
    \A n \in 1..Len(m_reads) : Keys(m_reads[n]) \subseteq m_topics

Calls == SelectSeq(c_log, IsCall)

IsCallOrWait(e) == IsCall(e) \/ e = "wait"

\* the calls and waits of the loop, without the acknowledgements
Passes == SelectSeq(c_log, IsCallOrWait)

RetryOver == c_pc \in {"ready", "exit"}

\* C30: the retry makes at most max_retries connection calls; after the
\* connection stands (the open went through for ads, the CONNACK came for
\* mqtt) nothing is opened again; calls and waits alternate, beginning and,
\* when the retry is over, ending with a call; the adapter is handed back
\* only when connected and construction exits otherwise; the retry is over
\* at some time.
C30_RetrySafe ==
    /\ Len(Calls) <= c_max
    /\ \A m, n \in 1..Len(c_log) :
          ( /\ m < n
            /\ c_log[m] = (IF c_kind = "Ads" THEN "opened" ELSE "ack") )
          => c_log[n] \in {"already", "ack"}
    /\ \A n \in 1..Len(Passes) : (Passes[n] = "wait") <=> (n % 2 = 0)
    /\ RetryOver => (Passes = <<>> \/ Len(Passes) % 2 = 1)
    /\ c_pc = "ready" => c_connected
    /\ c_pc = "exit" => ~c_connected

C30_RetryTerminates == []C30_RetrySafe /\ <>RetryOver

C30_Witness ==
    /\ c_pc = "exit"
    /\ c_max = 2
    /\ Passes = << "failed", "wait", "failed" >>

\* C32: a call of run_data_logging that starts a session sets the start
\* time, the first deadline and the log counter anew, and once a session has
\* ended nothing is written or counted for it: the only step left is the
\* return to the caller.
C32_FreshSession ==
    [][ /\ (pc = "idle" /\ pc' = "loop") =>
              /\ start_time' = now
              /\ next_log_time' = now
              /\ log_count' = 0
              /\ ticks' = 0
        /\ pc \in Terminal =>
              /\ pc' = "idle"
              /\ files' = files
              /\ log_count' = log_count ]_vars

C32_Witness ==
    /\ runs >= 1
    /\ pc = "sleep"
    /\ start_time > 0
    /\ log_count = 1
    /\ next_log_time = start_time + interval
    /\ Len(files[1]) >= 2

\* the row the current tick hands to the outputs, from what was read in it
RowOfTick == (IF add_timestamp THEN <<timestamp>> ELSE <<>>) \o ValuesRead

\* C33: a row an output holds for the tick in progress is made of the
\* timestamp of that tick and of the values the sources returned in that
\* tick, nothing else.
C33_RowOfTickOnly ==
    pc \in Running =>
        \A j \in Outputs : \A n \in 1..Len(files[j]) :
            files[j][n].tick = ticks => files[j][n].row = RowOfTick

C33_Witness ==
    /\ pc = "sleep"
    /\ ticks = 2
    /\ \E i \in 1..Len(reads) : reads[i].values = <<>>
    /\ \E j \in Outputs :
          /\ Len(files[j]) = 2
          /\ files[j][2].tick = 2
          /\ Len(files[j][1].row) > Len(files[j][2].row)

Mismatch == Len(data) # Len(DataHeaders(data_sources))

\* C34: with check_data_length a tick whose data is not as long as the
\* headers leaves every output and the log counter as they were and goes on
\* to the sleep (or is cancelled); when it sleeps no output has a result or a
\* row of that tick.
C34_MismatchDropsTick ==
    /\ [][(pc = "check" /\ check_data_length /\ Mismatch) =>
              /\ pc' \in {"sleep", "Cancelled"}
              /\ files' = files
              /\ results' = results
              /\ log_count' = log_count]_vars
    /\ []((pc = "sleep" /\ check_data_length /\ Mismatch) =>
              /\ results = NoResults
              /\ \A j \in Outputs : \A n \in 1..Len(files[j]) :
                    files[j][n].tick # ticks)

C34_Witness ==
    /\ pc = "loop"
    /\ ticks = 1
    /\ check_data_length
    /\ Mismatch
    /\ log_count = 0

\* C35: every row a csv output holds has as many fields as the output's
\* header.
C35_RowWidthIsHeaderWidth ==
    \A j \in Outputs :
        data_outputs[j].kind = "Csv" =>
            \A n \in 1..Len(files[j]) :
                Len(files[j][n].row) = Len(data_outputs[j].headers)

\* C36: in a session with the timestamp and the length check, every field
\* of a row a csv output holds that stands in the column of a variable is the
\* value of that variable or the missing marker.
C36_NoShiftAcrossSources ==
    (add_timestamp /\ check_data_length) =>
        \A j \in Outputs :
            data_outputs[j].kind = "Csv" =>
                \A n \in 1..Len(files[j]) :
                    \A i \in Sources :
                        \A k \in 1..Len(data_sources[i].headers) :
                            Column(i, k) <= Len(files[j][n].row) =>
                                files[j][n].row[Column(i, k)]
                                    \in {ValueCell(i, k), NoneCell}

\* C37: the tick in progress, the k-th of the session, began at or after
\* start_time + (k - 1) * interval, and the deadline set in it is the k-th of
\* the grid: no deadline has two ticks.
C37_NeverEarly ==
    (Started /\ ticks >= 1) =>
        /\ timestamp[1] >= start_time + (ticks - 1) * interval
        /\ next_log_time - interval = start_time + (ticks - 1) * interval

C37_Witness ==
    /\ pc = "read"
    /\ ticks = 3
    /\ slow
    /\ timestamp[1] = start_time + 2 * interval
    /\ interval = 1

\* C39: a construction of a csv output given a settings key other than
\* 'delimiter' ends in ValueError with the file as it was; a construction
\* given supported keys or none uses the default with the given values; the
\* class-level default is the same after every construction.
C39_SettingsChecked ==
    o_pc \in {"ready", "ValueError"} =>
        /\ o_default = [delimiter |-> ";"]
        /\ o_pc = "ValueError" <=> DOMAIN o_arg \ {"delimiter"} # {}
        /\ o_pc = "ValueError" => o_file = o_prev
        /\ o_pc = "ready" =>
              o_settings = [delimiter |-> IF "delimiter" \in DOMAIN o_arg
                                          THEN o_arg.delimiter ELSE ";"]

C39_Witness ==
    /\ o_pc = "ValueError"
    /\ o_built = 2
    /\ o_settings = [delimiter |-> ","]
    /\ "delimiter" \in DOMAIN o_arg
    /\ Len(o_file) >= 2

\* C31: the read of one thread and the write of the other are never both
\* in progress on the adapter's connection.
C31_NoOverlap == ~(s_reader = "io" /\ s_writer = "io")

\* the items a log call hands over with a value: of the row zipped with the
\* names when the row has the width of the names (ads), of the mapping (mqtt)
WithValue(given) ==
    IF d_kind = "Ads"
    THEN IF Len(given) = Len(d_names)
         THEN { <<d_names[k], given[k]>> : k \in { h \in 1..Len(given) : given[h] # <<>> } }
         ELSE {}
    ELSE { item \in given : item[2] # <<>> }

RECURSIVE ExpectedSent(_)
ExpectedSent(calls) ==
    IF calls = <<>> THEN <<>>
    ELSE (IF WithValue(Head(calls)) # {} THEN <<WithValue(Head(calls))>> ELSE <<>>)
             \o ExpectedSent(Tail(calls))

\* C38: nothing sent to the device is empty or carries a missing value, and
\* what was sent is, call by call, exactly the names given with a value;
\* a call given no value at all sent nothing.
C38_NoMissingSent ==
    /\ \A n \in 1..Len(d_sent) :
          /\ d_sent[n] # {}
          /\ \A item \in d_sent[n] : item[2] # NoneCell
    /\ d_sent = ExpectedSent(d_calls)

C38_Witness ==
    /\ d_kind = "Ads"
    /\ d_calls = << <<NoneCell, NoneCell>>, <<ValueCell(1, 1), NoneCell>> >>
    /\ d_sent = << { << <<"p">>, ValueCell(1, 1) >> } >>

\* ===================================================================
\* Properties of the name resolution
\* ===================================================================
RSources == 1..Len(r_sources)
RSinks == 1..Len(r_sinks)

DeclaredAll == Flatten([i \in RSources |-> r_sources[i].names])
CandidatesAll(j) == AllCandidates(r_rules, r_sources, r_sinks[j].name)
CandidatesOf(i, j) == Candidates(r_rules, r_sources, r_sinks[j].name, i)

\* the declared names of source i, each after '<sourceName><delimiter>'
ExpectedPrefixed(i) ==
    [k \in 1..Len(r_sources[i].names) |->
        r_sources[i].name \o r_delim \o r_sources[i].names[k]]

\* some character of the delimiter occurs in the name
DelimInName(name, delim) ==
    \E a \in 1..Len(name), b \in 1..Len(delim) : name[a] = delim[b]

CollisionStays(j) ==
    \E a, b \in RSources :
        /\ a # b
        /\ \E ka \in 1..Len(r_sources[a].names), kb \in 1..Len(r_sources[b].names) :
              /\ r_sources[a].names[ka] = r_sources[b].names[kb]
              /\ CandidatesOf(a, j)[ka] = CandidatesOf(b, j)[kb]

Collisions(names) ==
    { p \in (1..Len(names)) \X (1..Len(names)) : p[1] < p[2] /\ names[p[1]] = names[p[2]] }

\* the rename rules of sink j remove some duplicates of the declared names
\* and leave others
PartlyRemoved(j) ==
    /\ Collisions(CandidatesAll(j)) # {}
    /\ \E p \in Collisions(DeclaredAll) : p \notin Collisions(CandidatesAll(j))

\* C6: when the rename rules of a sink remove some but not all duplicates,
\* the final names of every source for that sink are its declared names after
\* '<sourceName><delimiter>': the renaming has no effect.
C6_PartialRenameDiscarded ==
    r_pc = "accepted" =>
        \A j \in RSinks :
            PartlyRemoved(j) => \A i \in RSources : resolved[j][i] = ExpectedPrefixed(i)

C6_Witness ==
    /\ r_pc = "accepted"
    /\ \E j \in RSinks :
          /\ PartlyRemoved(j)
          /\ \E r \in r_rules : r.sink = r_sinks[j].name /\ r.new \notin Range(DeclaredAll)

PrefixedAll ==
    Flatten([i \in RSources |-> PrefixedNames(r_sources, i, r_delim)])

Constructed == r_pc \in {"accepted", "ConfigurationError"}

\* C7 as stated: for sources with distinct names, each with distinct variable
\* names, the prefixed names are pairwise distinct, whatever the names and
\* the delimiter.
C7_PrefixingDistinct ==
    Constructed => IsUnique(PrefixedAll)

\* C7 as amended: they are pairwise distinct when no source name contains a
\* character of the delimiter.
C7_PrefixingDistinctNoDelim ==
    ( /\ Constructed
      /\ \A i \in RSources : ~DelimInName(r_sources[i].name, r_delim) )
    => IsUnique(PrefixedAll)

C7_Witness ==
    /\ Constructed
    /\ \A i \in RSources : ~DelimInName(r_sources[i].name, r_delim)
    /\ \E i \in RSources : \E k \in 1..Len(r_sources[i].names) :
          DelimInName(r_sources[i].names[k], r_delim)
    /\ \E j \in RSinks : ~IsUnique(CandidatesAll(j))

\* C8: a sink whose candidates are all distinct keeps them as its final
\* names, whatever the other sinks of the logger do.
C8_ResolvedPerSink ==
    r_pc = "accepted" =>
        \A j \in RSinks :
            IsUnique(CandidatesAll(j)) =>
                \A i \in RSources : resolved[j][i] = CandidatesOf(i, j)

C8_Witness ==
    /\ r_pc = "accepted"
    /\ ~IsUnique(DeclaredAll)
    /\ \E a, b \in RSinks :
          /\ IsUnique(CandidatesAll(a))
          /\ ~IsUnique(CandidatesAll(b))
          /\ \A i \in RSources : resolved[b][i] = ExpectedPrefixed(i)

====
